---- MODULE Spec2Model ----
(***************************************************************************)
(* glow-worm: the recurring financial-event processor of app/tasks.py      *)
(* (process_due_bills, process_income_allocation, advance_due_date,        *)
(* _compute_bills_recommended) over the persistent store of app/models.py. *)
(*                                                                         *)
(* Money is counted in cents (the columns are Numeric(12, 2)).  A stored   *)
(* date is the ISO string "YYYY-MM-DD"; it is modelled by the number       *)
(* YYYYMMDD, whose order is the lexicographic order of the zero-padded     *)
(* strings the code compares.  A datetime.date is a record                 *)
(* [year, month, day]; isoformat and fromisoformat convert between them.   *)
(***************************************************************************)
EXTENDS Integers, Sequences, FiniteSets, TLC

\* ------------------------------------------------------------------ bounds

\* Number of days the clock may advance past FirstDay.
MaxDays == 2

\* Number of times the income allocation may be saved.
MaxUpserts == 1

\* The first value of the clock: 2028-01-30 (2028 is a leap year, so the run
\* crosses the January/February boundary and clamps Jan 31 to Feb 29).
FirstDay == [year |-> 2028, month |-> 1, day |-> 30]

\* A nullable foreign key that is NULL (ids start at 1).
None == 0

\* ---------------------------------------------------------------- calendar

IsLeap(y) == (y % 4 = 0 /\ y % 100 # 0) \/ y % 400 = 0

\* calendar.monthrange(year, month)[1]
monthrange(y, m) ==
    IF m = 2 THEN (IF IsLeap(y) THEN 29 ELSE 28)
    ELSE IF m \in {4, 6, 9, 11} THEN 30 ELSE 31

\* date.isoformat(), as the number YYYYMMDD
isoformat(d) == d.year * 10000 + d.month * 100 + d.day

\* date.fromisoformat()
fromisoformat(s) ==
    [year |-> s \div 10000, month |-> (s \div 100) % 100, day |-> s % 100]

NextDay(d) ==
    IF d.day < monthrange(d.year, d.month)
    THEN [d EXCEPT !.day = @ + 1]
    ELSE IF d.month < 12
         THEN [year |-> d.year, month |-> d.month + 1, day |-> 1]
         ELSE [year |-> d.year + 1, month |-> 1, day |-> 1]

\* current + timedelta(days=n)
RECURSIVE AddDays(_, _)
AddDays(d, n) ==
    IF n = 0 THEN d
    ELSE \* x is bound to the value of d, so each day is computed once
         CHOOSE r \in {AddDays(NextDay(x), n - 1) : x \in {d}} : TRUE

\* An advance that keeps the day of month without clamping it to the length
\* of the target month.
advance_due_date_unclamped(current, frequency) ==
    LET k == IF frequency = "monthly" THEN 1
             ELSE IF frequency = "quarterly" THEN 3 ELSE 12
        m0 == current.month + k
    IN IF frequency = "28_days" THEN AddDays(current, 28)
       ELSE IF frequency \in {"monthly", "quarterly", "yearly"}
       THEN [year |-> IF m0 > 12 THEN current.year + 1 ELSE current.year,
             month |-> IF m0 > 12 THEN m0 - 12 ELSE m0,
             day |-> current.day]
       ELSE AddDays(current, 30)

\* An advance that wraps the month past December without rolling the year.
advance_due_date_sameyear(current, frequency) ==
    LET k == IF frequency = "monthly" THEN 1 ELSE 3
        m0 == current.month + k
        month == IF m0 > 12 THEN m0 - 12 ELSE m0
        year == IF frequency = "yearly" THEN current.year + 1 ELSE current.year
    IN IF frequency = "28_days" THEN AddDays(current, 28)
       ELSE IF frequency \in {"monthly", "quarterly"}
       THEN [year |-> year, month |-> month,
             day |-> IF current.day < monthrange(year, month)
                     THEN current.day ELSE monthrange(year, month)]
       ELSE IF frequency = "yearly"
       THEN [year |-> year, month |-> current.month,
             day |-> IF current.day < monthrange(year, current.month)
                     THEN current.day ELSE monthrange(year, current.month)]
       ELSE AddDays(current, 30)

\* An advance that takes the last day of a month to the last day of the
\* target month.
advance_due_date_end_of_month(current, frequency) ==
    LET k == IF frequency = "monthly" THEN 1
             ELSE IF frequency = "quarterly" THEN 3 ELSE 12
        m0 == current.month + k
        month == IF m0 > 12 THEN m0 - 12 ELSE m0
        year == IF m0 > 12 THEN current.year + 1 ELSE current.year
    IN IF frequency = "28_days" THEN AddDays(current, 28)
       ELSE IF frequency \in {"monthly", "quarterly", "yearly"}
       THEN [year |-> year, month |-> month,
             day |-> IF current.day < monthrange(year, month)
                        /\ current.day < monthrange(current.year, current.month)
                     THEN current.day ELSE monthrange(year, month)]
       ELSE AddDays(current, 30)

advance_due_date(current, frequency) ==
    IF frequency = "28_days" THEN AddDays(current, 28)
    ELSE IF frequency = "monthly" THEN
        LET m0 == current.month + 1
            month == IF m0 > 12 THEN 1 ELSE m0
            year == IF m0 > 12 THEN current.year + 1 ELSE current.year
        IN [year |-> year, month |-> month,
            day |-> IF current.day < monthrange(year, month)
                    THEN current.day ELSE monthrange(year, month)]
    ELSE IF frequency = "quarterly" THEN
        LET m0 == current.month + 3
            \* the while loop runs at most once: m0 <= 15
            month == IF m0 > 12 THEN m0 - 12 ELSE m0
            year == IF m0 > 12 THEN current.year + 1 ELSE current.year
        IN [year |-> year, month |-> month,
            day |-> IF current.day < monthrange(year, month)
                    THEN current.day ELSE monthrange(year, month)]
    ELSE IF frequency = "yearly" THEN
        LET year == current.year + 1
        IN [year |-> year, month |-> current.month,
            day |-> IF current.day < monthrange(year, current.month)
                    THEN current.day ELSE monthrange(year, current.month)]
    ELSE AddDays(current, 30)

\* ------------------------------------------------------------ annualization

\* A multiplier table that counts a 28-day bill 13 times a year.
MultiplierThirteen(frequency) ==
    IF frequency = "monthly" THEN 12000
    ELSE IF frequency = "quarterly" THEN 4000
    ELSE IF frequency = "28_days" THEN 13000
    ELSE 1000

\* FREQUENCY_ANNUAL_MULTIPLIER, in thousandths (13.036 is Decimal("13.036"));
\* .get(frequency, 1) gives 1 for an unknown frequency.
FREQUENCY_ANNUAL_MULTIPLIER(frequency) ==
    IF frequency = "monthly" THEN 12000
    ELSE IF frequency = "quarterly" THEN 4000
    ELSE IF frequency = "yearly" THEN 1000
    ELSE IF frequency = "28_days" THEN 13036
    ELSE 1000

\* Decimal.quantize(Decimal("0.01")) of n/d for n >= 0, d > 0, under the
\* default context (ROUND_HALF_EVEN).
RoundHalfEven(n, d) ==
    LET q == n \div d
        r == n % d
    IN IF 2 * r < d THEN q
       ELSE IF 2 * r > d THEN q + 1
       ELSE IF q % 2 = 0 THEN q ELSE q + 1

RECURSIVE SumAnnual(_, _)
SumAnnual(bills, S) ==
    IF S = {} THEN 0
    ELSE LET b == CHOOSE x \in S : TRUE
         IN bills[b].amount * FREQUENCY_ANNUAL_MULTIPLIER(bills[b].frequency)
            + SumAnnual(bills, S \ {b})

\* _compute_bills_recommended(db): cents, from thousandths of cents per year.
compute_bills_recommended(s) ==
    LET active == {b \in DOMAIN s.bills : s.bills[b].is_active}
        total_annual == SumAnnual(s.bills, active)
    IN IF total_annual = 0 THEN 0 ELSE RoundHalfEven(total_annual, 12 * 1000)

\* ------------------------------------------------------------------- store

VARIABLES
    today,          \* _today(): the current local date
    funds,          \* sinking_funds: id -> [name, current_balance, is_deleted]
    bills,          \* recurring_bills: id -> row
    transactions,   \* transactions: set of rows
    allocation,     \* income_allocations: <<>> or <<row>> (singleton table)
    categories,     \* categories: id -> [type, is_budget_category, is_deleted]
    budgets,        \* budgets: set of rows, unique per (category_id, month, year)
    unallocated,    \* monthly_unallocated_income: set of rows, unique per (month, year)
    upserts,        \* number of times the income allocation was saved
    runs,           \* the process_due_bills invocations in progress: their
                    \* position and their session (see IdleRun)
    last            \* history: the operation that produced this state, and
                    \* what came right before it (see Record)

vars == <<today, funds, bills, transactions, allocation, categories, budgets,
          unallocated, upserts, runs, last>>

\* The invocations of process_due_bills that may be in progress at once.
Runs == {1, 2}

\* An invocation that has not started.  pc: "idle", "select" (Bills fund
\* loaded), "loop" (due bills loaded), "done".  funds, bills: the rows as the
\* session holds them, loaded once and then changed in memory.  order, k: the
\* result list and how many of its bills were handled.  added: the new
\* transactions of the session; paid: the bills it changed.
IdleRun ==
    [pc |-> "idle", funds |-> <<>>, bills |-> <<>>, order |-> <<>>, k |-> 0,
     added |-> <<>>, paid |-> {}]

\* The committed contents of the database.
Store ==
    [funds |-> funds, bills |-> bills, transactions |-> transactions,
     allocation |-> allocation, categories |-> categories, budgets |-> budgets,
     unallocated |-> unallocated]

\* The database after a unit of work ended with contents s.
SetStore(s) ==
    /\ funds' = s.funds
    /\ bills' = s.bills
    /\ transactions' = s.transactions
    /\ allocation' = s.allocation
    /\ categories' = s.categories
    /\ budgets' = s.budgets
    /\ unallocated' = s.unallocated

\* db.commit(): the pending state of the session becomes the committed one.
Commit(committed, pending) == pending

\* A handler that re-raises without rolling back: on a caller-owned session the
\* pending changes stay in the unit of work and reach the database with it.
RollbackForgotten(committed, pending) == pending

\* db.rollback(): the pending state of the session is discarded.
Rollback(committed, pending) == committed

Min(S) == CHOOSE x \in S : \A y \in S : x <= y
Max(S) == CHOOSE x \in S : \A y \in S : x >= y

\* db.add(Transaction(...)): the primary key is the next rowid.
AddTransaction(s, date, amount, category_id, type, transaction_type, sinking_fund_id, recurring_bill_id) ==
    LET id == IF s.transactions = {} THEN 1
              ELSE Max({t.id : t \in s.transactions}) + 1
    IN [s EXCEPT !.transactions = @ \cup
            {[id |-> id, date |-> date, amount |-> amount,
              category_id |-> category_id, type |-> type,
              transaction_type |-> transaction_type,
              sinking_fund_id |-> sinking_fund_id,
              recurring_bill_id |-> recurring_bill_id]}]

\* A lookup of the Bills fund that forgets the is_deleted filter.
BillsFundIgnoringDeleted(s) ==
    LET ids == {f \in DOMAIN s.funds : s.funds[f].name = "Bills"}
    IN IF ids = {} THEN None ELSE Min(ids)

\* query(SinkingFund).filter(name == "Bills", is_deleted == False).first()
BillsFund(s) ==
    LET ids == {f \in DOMAIN s.funds :
                    s.funds[f].name = "Bills" /\ ~s.funds[f].is_deleted}
    IN IF ids = {} THEN None ELSE Min(ids)

\* ------------------------------------------------------- process_due_bills

\* A due_bills query that forgets the is_active filter.
due_bills_with_inactive(s, today_str) ==
    {b \in DOMAIN s.bills : s.bills[b].next_due_date <= today_str}

\* A due_bills query that leaves out the bills whose due date is after their
\* end_date.
due_bills_until_end_date(s, today_str) ==
    {b \in DOMAIN s.bills :
        /\ s.bills[b].is_active /\ s.bills[b].next_due_date <= today_str
        /\ \/ s.bills[b].end_date = <<>>
           \/ s.bills[b].next_due_date <= s.bills[b].end_date[1]}

\* query(RecurringBill).filter(is_active == True, next_due_date <= today_str)
due_bills(s, today_str) ==
    {b \in DOMAIN s.bills :
        s.bills[b].is_active /\ s.bills[b].next_due_date <= today_str}

\* A guard that never finds an earlier payment.
NeverPaidToday(s, b, today_str) == FALSE

\* A guard that takes the payment of any bill today for a payment of this one.
AnyBillPaidToday(s, b, today_str) ==
    \E t \in s.transactions : t.recurring_bill_id # None /\ t.date = today_str

\* A guard that takes a payment of the bill on any day for a payment today.
EverPaid(s, b, today_str) ==
    \E t \in s.transactions : t.recurring_bill_id = b

\* A guard that matches only payments of the bill's own amount dated today.
OwnAmountPaidToday(s, b, today_str) ==
    \E t \in s.transactions :
        /\ t.recurring_bill_id = b
        /\ t.date = today_str
        /\ t.amount = s.bills[b].amount

\* The idempotency guard: a transaction of this bill dated today exists.
AlreadyPaidToday(s, b, today_str) ==
    \E t \in s.transactions : t.recurring_bill_id = b /\ t.date = today_str

\* An advance that starts from today instead of the stored due date.
NextDueFromToday(bill, today_str) ==
    isoformat(advance_due_date(fromisoformat(today_str), bill.frequency))

\* The new next_due_date of a bill that is paid.
NextDue(bill, today_str) ==
    isoformat(advance_due_date(fromisoformat(bill.next_due_date), bill.frequency))

\* A payment that debits the fund and advances the bill without recording a
\* transaction.
PayDueBillUnrecorded(s, b, today_str, bills_fund) ==
    IF AlreadyPaidToday(s, b, today_str) THEN s
    ELSE [s EXCEPT !.funds[bills_fund].current_balance = @ - s.bills[b].amount,
                   !.bills[b].next_due_date = NextDue(s.bills[b], today_str)]

\* One iteration of the loop over due_bills.
PayDueBill(s, b, today_str, bills_fund) ==
    IF AlreadyPaidToday(s, b, today_str) THEN s
    ELSE LET amount == s.bills[b].amount
             s1 == AddTransaction(s, today_str, amount, s.bills[b].category_id,
                                  "expense", "regular", bills_fund, b)
         IN [s1 EXCEPT !.funds[bills_fund].current_balance = @ - amount,
                       !.bills[b].next_due_date = NextDue(s.bills[b], today_str)]

\* The session after the first k bills of the result list were handled.
RECURSIVE PayDueBills(_, _, _, _, _)
PayDueBills(s, order, k, today_str, bills_fund) ==
    IF k = 0 THEN s
    ELSE PayDueBill(PayDueBills(s, order, k - 1, today_str, bills_fund),
                    order[k], today_str, bills_fund)

\* The orders in which .all() may return the rows of S.
Orders(S) ==
    {o \in [1..Cardinality(S) -> S] : \A i, j \in 1..Cardinality(S) :
                                          o[i] = o[j] => i = j}

\* The outcomes of a run: "committed"; "returned" (configuration missing);
\* "skipped" (idempotency guard); "raised" (an exception while the session held
\* pending changes); "raised_clean" (an exception with nothing pending).
\* after: the outcome of the operation right before this one when that was the
\* same operation; for a save, the outcome of an income run right before it;
\* for an income run right after a save that followed a "returned" income run,
\* "returned_saved"; "none" otherwise.
Record(op, outcome) ==
    last' = [op |-> op, outcome |-> outcome,
             after |-> IF last.op = op THEN last.outcome
                       ELSE IF op = "upsert" /\ last.op = "income" THEN last.outcome
                       ELSE IF op = "income" /\ last.op = "upsert"
                               /\ last.after = "returned" THEN "returned_saved"
                       ELSE "none"]

Raised(committed, pending) ==
    IF pending = committed THEN "raised_clean" ELSE "raised"

\* No Bills fund: a warning is logged and the function returns.
process_due_bills_nofund ==
    /\ BillsFund(Store) = None
    /\ SetStore(Store)
    /\ Record("bills", "returned")
    /\ UNCHANGED <<today, upserts, runs>>

\* The whole batch is handled and committed.
process_due_bills_commit ==
    /\ BillsFund(Store) # None
    /\ \E order \in Orders(due_bills(Store, isoformat(today))) :
          SetStore(Commit(Store, PayDueBills(Store, order, Len(order),
                                             isoformat(today), BillsFund(Store))))
    /\ Record("bills", "committed")
    /\ UNCHANGED <<today, upserts, runs>>

\* An exception after k bills were handled (k = Len(order): at commit):
\* rollback, log, re-raise.
process_due_bills_raise ==
    /\ \E order \in Orders(due_bills(Store, isoformat(today))) :
         \E k \in 0..Len(order) :
          LET pending == IF BillsFund(Store) = None THEN Store
                         ELSE PayDueBills(Store, order, k, isoformat(today),
                                          BillsFund(Store))
          IN /\ SetStore(Rollback(Store, pending))
             /\ Record("bills", Raised(Store, pending))
    /\ UNCHANGED <<today, upserts, runs>>

process_due_bills ==
    \/ process_due_bills_nofund
    \/ process_due_bills_commit
    \/ process_due_bills_raise

\* ----------------------------------------------- process_income_allocation

\* f"{year}-{month:02d}-01"
month_start(d) == d.year * 10000 + d.month * 100 + 1

\* f"{year}-{month:02d}-{calendar.monthrange(year, month)[1]:02d}"
month_end(d) == d.year * 10000 + d.month * 100 + monthrange(d.year, d.month)

\* A guard that looks for an income transaction dated today only.
IncomeProcessedToday(s, d) ==
    \E t \in s.transactions :
        t.transaction_type = "income" /\ t.date = isoformat(d)

\* A guard that takes any transaction dated in the month as a sign that the
\* month was processed.
AnyTransactionInMonth(s, d) ==
    \E t \in s.transactions :
        t.date >= month_start(d) /\ t.date <= month_end(d)

\* A guard that also takes the allocation transactions of the month as a
\* sign that the month was processed.
IncomeOrAllocationInMonth(s, d) ==
    \E t \in s.transactions :
        /\ t.transaction_type \in {"income", "income_allocation"}
        /\ t.date >= month_start(d)
        /\ t.date <= month_end(d)

\* The idempotency guard: an income transaction dated in today's month exists.
IncomeAlreadyProcessed(s, d) ==
    \E t \in s.transactions :
        /\ t.transaction_type = "income"
        /\ t.date >= month_start(d)
        /\ t.date <= month_end(d)

\* query(Category).filter(type == ty, is_deleted == False).first()
FirstCategory(s, ty) ==
    LET ids == {c \in DOMAIN s.categories :
                    s.categories[c].type = ty /\ ~s.categories[c].is_deleted}
    IN IF ids = {} THEN None ELSE Min(ids)

\* A configuration check that forgets the expense category.
ConfigMissingNoExpenseCheck(s) ==
    \/ s.allocation = <<>>
    \/ FirstCategory(s, "income") = None

\* The early exits after the guard: no IncomeAllocation row, no income
\* category, no expense category.
ConfigMissing(s) ==
    \/ s.allocation = <<>>
    \/ FirstCategory(s, "income") = None
    \/ FirstCategory(s, "expense") = None

\* 1. the income transaction; total_allocated starts at 0.
IncomeStep1(s, d) ==
    [s |-> AddTransaction(s, isoformat(d), s.allocation[1].monthly_income_amount,
                          FirstCategory(s, "income"), "income", "income", None, None),
     total_allocated |-> 0]

\* An iteration that does not check the sign of the amount.
AllocateJunctionAnyAmount(w, junction, d, bills_fund_id) ==
    IF junction.sinking_fund_id = bills_fund_id THEN w
    ELSE IF ~(junction.sinking_fund_id \in DOMAIN w.s.funds
              /\ ~w.s.funds[junction.sinking_fund_id].is_deleted) THEN w
    ELSE LET amount == junction.allocation_amount
             s1 == AddTransaction(w.s, isoformat(d), amount,
                                  FirstCategory(w.s, "expense"), "expense",
                                  "income_allocation", junction.sinking_fund_id, None)
         IN [s |-> [s1 EXCEPT !.funds[junction.sinking_fund_id].current_balance
                                 = @ + amount],
             total_allocated |-> w.total_allocated + amount]

\* An iteration that distributes to the Bills fund like to any other fund.
AllocateJunctionAlsoBills(w, junction, d, bills_fund_id) ==
    IF ~(junction.sinking_fund_id \in DOMAIN w.s.funds
         /\ ~w.s.funds[junction.sinking_fund_id].is_deleted) THEN w
    ELSE IF junction.allocation_amount <= 0 THEN w
    ELSE LET amount == junction.allocation_amount
             s1 == AddTransaction(w.s, isoformat(d), amount,
                                  FirstCategory(w.s, "expense"), "expense",
                                  "income_allocation", junction.sinking_fund_id, None)
         IN [s |-> [s1 EXCEPT !.funds[junction.sinking_fund_id].current_balance
                                 = @ + amount],
             total_allocated |-> w.total_allocated + amount]

\* One iteration of the loop over allocation.sinking_fund_allocations.
AllocateJunction(w, junction, d, bills_fund_id) ==
    IF junction.sinking_fund_id = bills_fund_id THEN w
    ELSE IF ~(junction.sinking_fund_id \in DOMAIN w.s.funds
              /\ ~w.s.funds[junction.sinking_fund_id].is_deleted) THEN w
    ELSE IF junction.allocation_amount <= 0 THEN w
    ELSE LET amount == junction.allocation_amount
             s1 == AddTransaction(w.s, isoformat(d), amount,
                                  FirstCategory(w.s, "expense"), "expense",
                                  "income_allocation", junction.sinking_fund_id, None)
         IN [s |-> [s1 EXCEPT !.funds[junction.sinking_fund_id].current_balance
                                 = @ + amount],
             total_allocated |-> w.total_allocated + amount]

RECURSIVE AllocateJunctions(_, _, _, _, _)
AllocateJunctions(w, junctions, k, d, bills_fund_id) ==
    IF k = 0 THEN w
    ELSE AllocateJunction(AllocateJunctions(w, junctions, k - 1, d, bills_fund_id),
                          junctions[k], d, bills_fund_id)

\* 2. distribute to the sinking funds per junction table (skip Bills).
IncomeStep2(w, d) ==
    AllocateJunctions(w, w.s.allocation[1].sinking_fund_allocations,
                      Len(w.s.allocation[1].sinking_fund_allocations), d,
                      BillsFund(w.s))

\* A contribution that always takes the recommended amount.
BillsAmountAlwaysRecommended(s) == compute_bills_recommended(s)

\* The Bills contribution: Decimal(str(bills_fund_fixed_amount or 0)) when the
\* type is fixed, else the recommended amount.
BillsAmount(s) ==
    IF s.allocation[1].bills_fund_allocation_type = "fixed"
    THEN (IF s.allocation[1].bills_fund_fixed_amount = <<>> THEN 0
          ELSE s.allocation[1].bills_fund_fixed_amount[1])
    ELSE compute_bills_recommended(s)

\* 3. the Bills fund allocation.
IncomeStep3(w, d) ==
    LET bills_fund == BillsFund(w.s)
        bills_amount == BillsAmount(w.s)
    IN IF bills_fund # None /\ bills_amount > 0
       THEN [s |-> [AddTransaction(w.s, isoformat(d), bills_amount,
                                   FirstCategory(w.s, "expense"), "expense",
                                   "income_allocation", bills_fund, None)
                       EXCEPT !.funds[bills_fund].current_balance = @ + bills_amount],
             total_allocated |-> w.total_allocated + bills_amount]
       ELSE w

\* A seeding that also gives soft-deleted budget categories a row.
IncomeStep4WithDeleted(w, d) ==
    LET budget_cats == {c \in DOMAIN w.s.categories :
                           w.s.categories[c].is_budget_category}
        lacking == {c \in budget_cats :
                       ~\E b \in w.s.budgets : b.category_id = c
                            /\ b.month = d.month /\ b.year = d.year}
    IN [w EXCEPT !.s.budgets = @ \cup
            {[category_id |-> c, month |-> d.month, year |-> d.year,
              allocated_amount |-> 0, spent_amount |-> 0, fund_balance |-> 0]
             : c \in lacking}]

\* 4. a Budget row for every non-deleted budget category that lacks one.
IncomeStep4(w, d) ==
    LET budget_cats == {c \in DOMAIN w.s.categories :
                           w.s.categories[c].is_budget_category
                           /\ ~w.s.categories[c].is_deleted}
        lacking == {c \in budget_cats :
                       ~\E b \in w.s.budgets : b.category_id = c
                            /\ b.month = d.month /\ b.year = d.year}
    IN [w EXCEPT !.s.budgets = @ \cup
            {[category_id |-> c, month |-> d.month, year |-> d.year,
              allocated_amount |-> 0, spent_amount |-> 0, fund_balance |-> 0]
             : c \in lacking}]

\* An unallocated amount that forgets the budget allocation.
UnallocatedWithoutBudget(income_amount, total_allocated, budget_amount) ==
    income_amount - total_allocated

\* total_allocated += budget_amount; unallocated = income_amount - total_allocated
Unallocated(income_amount, total_allocated, budget_amount) ==
    income_amount - (total_allocated + budget_amount)

\* 5. record the unallocated income (overwrite the row of the month if any).
IncomeStep5(w, d) ==
    LET a == w.s.allocation[1]
        u == Unallocated(a.monthly_income_amount, w.total_allocated,
                         a.monthly_budget_allocation)
        others == {r \in w.s.unallocated : ~(r.month = d.month /\ r.year = d.year)}
    IN [w EXCEPT !.s.unallocated = others \cup
            {[month |-> d.month, year |-> d.year, unallocated_amount |-> u]}]

\* The session after the first i of the five steps.
IncomeStage(s, d, i) ==
    LET w1 == IncomeStep1(s, d)
        w2 == IncomeStep2(w1, d)
        w3 == IncomeStep3(w2, d)
        w4 == IncomeStep4(w3, d)
        w5 == IncomeStep5(w4, d)
    IN IF i = 0 THEN s
       ELSE IF i = 1 THEN w1.s
       ELSE IF i = 2 THEN w2.s
       ELSE IF i = 3 THEN w3.s
       ELSE IF i = 4 THEN w4.s
       ELSE w5.s

\* Income already processed this month: log and return.
process_income_allocation_guard ==
    /\ IncomeAlreadyProcessed(Store, today)
    /\ SetStore(Store)
    /\ Record("income", "skipped")
    /\ UNCHANGED <<today, upserts, runs>>

\* Configuration missing: log a warning and return.
process_income_allocation_noconfig ==
    /\ ~IncomeAlreadyProcessed(Store, today)
    /\ ConfigMissing(Store)
    /\ SetStore(Store)
    /\ Record("income", "returned")
    /\ UNCHANGED <<today, upserts, runs>>

\* The five steps and the commit.
process_income_allocation_commit ==
    /\ ~IncomeAlreadyProcessed(Store, today)
    /\ ~ConfigMissing(Store)
    /\ SetStore(Commit(Store, IncomeStage(Store, today, 5)))
    /\ Record("income", "committed")
    /\ UNCHANGED <<today, upserts, runs>>

\* An exception after i steps (i = 5: at commit): rollback, log, re-raise.
process_income_allocation_raise ==
    /\ \E i \in 0..5 :
          LET pending ==
                  IF IncomeAlreadyProcessed(Store, today) \/ ConfigMissing(Store)
                  THEN Store ELSE IncomeStage(Store, today, i)
          IN /\ SetStore(Rollback(Store, pending))
             /\ Record("income", Raised(Store, pending))
    /\ UNCHANGED <<today, upserts, runs>>

process_income_allocation ==
    \/ process_income_allocation_guard
    \/ process_income_allocation_noconfig
    \/ process_income_allocation_commit
    \/ process_income_allocation_raise

\* ------------------------------------------------- configuration and clock

\* _upsert_allocation: create or overwrite the single IncomeAllocation row and
\* replace its junction rows; commit.
upsert_allocation(monthly_income_amount, monthly_budget_allocation, bills_fund_allocation_type, bills_fund_fixed_amount, fund_allocations) ==
    /\ upserts < MaxUpserts
    /\ upserts' = upserts + 1
    /\ allocation' = <<[monthly_income_amount |-> monthly_income_amount,
                        monthly_budget_allocation |-> monthly_budget_allocation,
                        bills_fund_allocation_type |-> bills_fund_allocation_type,
                        bills_fund_fixed_amount |-> bills_fund_fixed_amount,
                        sinking_fund_allocations |-> fund_allocations]>>
    /\ Record("upsert", "committed")
    /\ UNCHANGED <<today, runs, funds, bills, transactions, categories, budgets,
                   unallocated>>

\* POST /income (the form): the income must be > 0; recommended stores no fixed
\* amount; fixed requires an amount but does not check its sign; a fund_<id>
\* field is kept when its amount is > 0, whether or not the fund exists.
income_save ==
    \E fixed \in {<<"recommended", <<>>>>, <<"fixed", <<-500>>>>} :
        upsert_allocation(500000, 80000, fixed[1], fixed[2],
            <<[sinking_fund_id |-> 1, allocation_amount |-> 30000],
              [sinking_fund_id |-> 3, allocation_amount |-> 10000],
              [sinking_fund_id |-> 2, allocation_amount |-> 50000]>>)

\* POST /api/income (IncomeAllocationCreate): income > 0, budget >= 0, fixed
\* amount >= 0 or absent, junction amounts >= 0.
api_post_income ==
    \E fixed \in {<<"fixed", <<>>>>, <<"fixed", <<90000>>>>} :
        upsert_allocation(500000, 80000, fixed[1], fixed[2],
            <<[sinking_fund_id |-> 1, allocation_amount |-> 30000],
              [sinking_fund_id |-> 2, allocation_amount |-> 0],
              [sinking_fund_id |-> 2, allocation_amount |-> 50000]>>)

\* The local date rolls over to the next day.
Tick ==
    /\ isoformat(today) < isoformat(AddDays(FirstDay, MaxDays))
    /\ today' = NextDay(today)
    /\ Record("tick", "none")
    /\ UNCHANGED <<upserts, runs, funds, bills, transactions, allocation, categories,
                   budgets, unallocated>>

\* ------------------------------------------------------------ initial store

\* The category tables: the seeded ones (income, expense, budget expense);
\* with the income category soft-deleted; without any expense category.
Salary == [type |-> "income", is_budget_category |-> FALSE, is_deleted |-> FALSE]
BillsCat == [type |-> "expense", is_budget_category |-> FALSE, is_deleted |-> FALSE]
Groceries == [type |-> "expense", is_budget_category |-> TRUE, is_deleted |-> FALSE]

CategoryTables ==
    {(1 :> Salary) @@ (2 :> BillsCat) @@ (3 :> Groceries),
     (1 :> [Salary EXCEPT !.is_deleted = TRUE]) @@ (2 :> BillsCat) @@ (3 :> Groceries),
     (1 :> Salary)}

\* The fund tables: Bills (present or soft-deleted) and Savings.
FundTables ==
    {(1 :> [name |-> "Bills", current_balance |-> 50000, is_deleted |-> d])
       @@ (2 :> [name |-> "Savings", current_balance |-> 100000, is_deleted |-> FALSE])
     : d \in BOOLEAN}

\* The second bill: every 28 days, variable and due; quarterly, due but
\* inactive; yearly and not yet due.
SecondBills ==
    {[amount |-> 1501, frequency |-> "28_days", category_id |-> 2,
      is_active |-> TRUE, next_due_date |-> 20280130, bill_type |-> "variable"],
     [amount |-> 1501, frequency |-> "quarterly", category_id |-> 2,
      is_active |-> FALSE, next_due_date |-> 20280130, bill_type |-> "fixed"],
     [amount |-> 1501, frequency |-> "yearly", category_id |-> 2,
      is_active |-> TRUE, next_due_date |-> 20280301, bill_type |-> "fixed"]}

\* The bill tables: a fixed monthly bill that is two cycles behind on FirstDay
\* (due 2027-11-30), and a second bill.
BillTables ==
    {(1 :> [amount |-> 10000, frequency |-> "monthly", category_id |-> 2,
            is_active |-> TRUE, next_due_date |-> 20271130, bill_type |-> "fixed"])
       @@ (2 :> second)
     : second \in SecondBills}

Init ==
    /\ today = FirstDay
    /\ funds \in FundTables
    /\ bills \in BillTables
    /\ transactions = {}
    /\ allocation = <<>>
    /\ categories \in CategoryTables
    /\ budgets = {}
    /\ unallocated = {}
    /\ upserts = 0
    /\ runs = [r \in Runs |-> IdleRun]
    /\ last = [op |-> "none", outcome |-> "none", after |-> "none"]

Next ==
    \/ process_due_bills
    \/ process_income_allocation
    \/ income_save
    \/ api_post_income
    \/ Tick

Spec == Init /\ [][Next]_vars

\* ---------------------------------------------------------- manual payment

\* The ledger size up to which a manual payment is taken.
MaxTxns == 2

\* An id that is not the id of any bill.
MissingBill == 99

\* The amounts entered in the pay form, in cents.
PayAmounts == {0, 2500}

\* The dates entered in the pay form: blank (today) or 2028-01-15.
PayDates == {isoformat(today), 20280115}

\* A payment that advances the due date from the payment date.
record_bill_payment_from_payment_date(s, b, amount, payment_date_str) ==
    LET bills_fund == BillsFund(s)
        s1 == AddTransaction(s, payment_date_str, amount, s.bills[b].category_id,
                             "expense", "regular", bills_fund, b)
    IN [s1 EXCEPT !.funds[bills_fund].current_balance = @ - amount,
                  !.bills[b].next_due_date =
                      isoformat(advance_due_date(fromisoformat(payment_date_str),
                                                 s.bills[b].frequency))]

\* A payment that does nothing when a transaction of the bill with the
\* payment date exists.
record_bill_payment_once(s, b, amount, payment_date_str) ==
    IF AlreadyPaidToday(s, b, payment_date_str) THEN s
    ELSE LET bills_fund == BillsFund(s)
             s1 == AddTransaction(s, payment_date_str, amount,
                                  s.bills[b].category_id, "expense", "regular",
                                  bills_fund, b)
         IN [s1 EXCEPT !.funds[bills_fund].current_balance = @ - amount,
                       !.bills[b].next_due_date =
                           isoformat(advance_due_date(
                               fromisoformat(s.bills[b].next_due_date),
                               s.bills[b].frequency))]

\* _record_bill_payment(db, bill, amount, payment_date_str), Bills fund found:
\* the transaction, the debit, the advance from the stored due date.
record_bill_payment(s, b, amount, payment_date_str) ==
    LET bills_fund == BillsFund(s)
        s1 == AddTransaction(s, payment_date_str, amount, s.bills[b].category_id,
                             "expense", "regular", bills_fund, b)
    IN [s1 EXCEPT !.funds[bills_fund].current_balance = @ - amount,
                  !.bills[b].next_due_date =
                      isoformat(advance_due_date(fromisoformat(s.bills[b].next_due_date),
                                                 s.bills[b].frequency))]

\* POST /bills/{bill_id}/pay answered "Not found" (no such bill) or "Amount
\* must be greater than zero.".
bills_pay_rejected(bill_id, amount) ==
    /\ bill_id \notin DOMAIN bills \/ amount <= 0
    /\ SetStore(Store)
    /\ Record("pay", "rejected")
    /\ UNCHANGED <<today, upserts, runs>>

\* POST /bills/{bill_id}/pay answered "Bills sinking fund not found": the
\* ValueError is raised before anything is added to the session and is caught;
\* nothing is committed and get_db closes the session.
bills_pay_nofund(bill_id, amount, payment_date) ==
    /\ bill_id \in DOMAIN bills /\ amount > 0
    /\ BillsFund(Store) = None
    /\ SetStore(Rollback(Store, Store))
    /\ Record("pay", "fund_not_found")
    /\ UNCHANGED <<today, upserts, runs>>

\* POST /bills/{bill_id}/pay: the payment is recorded and committed.
bills_pay_commit(bill_id, amount, payment_date) ==
    /\ bill_id \in DOMAIN bills /\ amount > 0
    /\ BillsFund(Store) # None
    /\ Cardinality(transactions) < MaxTxns
    /\ SetStore(Commit(Store, record_bill_payment(Store, bill_id, amount, payment_date)))
    /\ Record("pay", "committed")
    /\ UNCHANGED <<today, upserts, runs>>

\* POST /bills/{bill_id}/pay with a commit that raises: the request fails and
\* get_db closes the session, which discards the pending payment.
bills_pay_raise(bill_id, amount, payment_date) ==
    /\ bill_id \in DOMAIN bills /\ amount > 0
    /\ BillsFund(Store) # None
    /\ SetStore(Rollback(Store, record_bill_payment(Store, bill_id, amount, payment_date)))
    /\ Record("pay", "raised")
    /\ UNCHANGED <<today, upserts, runs>>

bills_pay ==
    \E bill_id \in DOMAIN bills \cup {MissingBill} :
      \E amount \in PayAmounts :
        \E payment_date \in PayDates :
            \/ bills_pay_rejected(bill_id, amount)
            \/ bills_pay_nofund(bill_id, amount, payment_date)
            \/ bills_pay_commit(bill_id, amount, payment_date)
            \/ bills_pay_raise(bill_id, amount, payment_date)

\* The due dates: in 2027 and 2028 (a leap year), the first, the middle and
\* the last five possible days of every month.
DueYears == {2027, 2028}
DueDays == {1, 15, 27, 28, 29, 30, 31}

DueDates ==
    {s \in {y * 10000 + m * 100 + d : y \in DueYears, m \in 1..12, d \in DueDays} :
        s % 100 <= monthrange(s \div 10000, (s \div 100) % 100)}

\* The closed set of frequencies, and a value outside it (the form routes store
\* the frequency field as entered).
Frequencies == {"monthly", "quarterly", "yearly", "28_days"}
UnknownFrequency == "fortnightly"

\* The clock of the payment runs: 2028-12-31, when every date of DueDates is due.
PayDay == [year |-> 2028, month |-> 12, day |-> 31]

\* One bill of any frequency, type and due date; Bills fund present or deleted.
InitPay ==
    /\ today = PayDay
    /\ funds \in FundTables
    /\ bills \in {(1 :> [amount |-> 1501, frequency |-> f, category_id |-> 2,
                         is_active |-> TRUE, next_due_date |-> d, bill_type |-> ty])
                  : f \in Frequencies \cup {UnknownFrequency}, d \in DueDates,
                    ty \in {"fixed", "variable"}}
    /\ transactions = {}
    /\ allocation = <<>>
    /\ categories = (1 :> Salary) @@ (2 :> BillsCat) @@ (3 :> Groceries)
    /\ budgets = {}
    /\ unallocated = {}
    /\ upserts = 0
    /\ runs = [r \in Runs |-> IdleRun]
    /\ last = [op |-> "none", outcome |-> "none", after |-> "none"]

NextPay ==
    \/ bills_pay
    \/ process_due_bills

SpecPay == InitPay /\ [][NextPay]_vars

\* --------------------------------------- process_due_bills, step by step

\* process_due_bills as the sequence of its database accesses, so that two
\* invocations, each with its own SessionLocal(), can interleave.  A query
\* reads the committed rows of the moment; a row that the session has loaded
\* stays as loaded (identity map).  SessionLocal has autoflush=False: nothing
\* is written before db.commit(), which flushes the values the session
\* computed and commits them.

\* The database as the session of the run sees it: its own fund and bill
\* objects, and the transactions that are committed at the moment.
RunView(run) ==
    [Store EXCEPT !.funds = run.funds, !.bills = run.bills]

\* The INSERTs of the flush: every new transaction gets the next rowid.
RECURSIVE InsertAdded(_, _, _)
InsertAdded(s, added, i) ==
    IF i = 0 THEN s
    ELSE LET t == added[i]
         IN AddTransaction(InsertAdded(s, added, i - 1), t.date, t.amount,
                           t.category_id, t.type, t.transaction_type,
                           t.sinking_fund_id, t.recurring_bill_id)

\* The database after the flush of the session: the INSERTs, and the UPDATEs
\* of the attributes the session set (the balance of the Bills fund and the
\* next_due_date of the bills it paid), with the values it computed.
Flushed(s, run) ==
    LET s1 == InsertAdded(s, run.added, Len(run.added))
        bills_fund == BillsFund(RunView(run))
    IN IF run.paid = {} THEN s1
       ELSE [s1 EXCEPT
               !.funds[bills_fund].current_balance =
                   run.funds[bills_fund].current_balance,
               !.bills = [b \in DOMAIN @ |->
                            IF b \in run.paid
                            THEN [@[b] EXCEPT !.next_due_date = run.bills[b].next_due_date]
                            ELSE @[b]]]

\* The Bills fund query finds nothing: log and return.
run_begin_nofund(r) ==
    /\ runs[r].pc = "idle"
    /\ BillsFund(Store) = None
    /\ runs' = [runs EXCEPT ![r].pc = "done"]
    /\ SetStore(Store)
    /\ Record("bills", "returned")
    /\ UNCHANGED <<today, upserts>>

\* The Bills fund query loads the fund.
run_begin(r) ==
    /\ runs[r].pc = "idle"
    /\ BillsFund(Store) # None
    /\ runs' = [runs EXCEPT ![r].pc = "select", ![r].funds = funds]
    /\ SetStore(Store)
    /\ UNCHANGED <<today, upserts, last>>

\* The due_bills query loads the due bills.
run_select(r) ==
    /\ runs[r].pc = "select"
    /\ \E order \in Orders(due_bills(Store, isoformat(today))) :
          runs' = [runs EXCEPT ![r].pc = "loop", ![r].bills = bills,
                               ![r].order = order]
    /\ SetStore(Store)
    /\ UNCHANGED <<today, upserts, last>>

\* One iteration of the loop: the guard query, then the payment.
run_pay(r) ==
    LET run == runs[r]
        view == RunView(run)
        b == run.order[run.k + 1]
        res == PayDueBill(view, b, isoformat(today), BillsFund(view))
    IN /\ run.pc = "loop"
       /\ run.k < Len(run.order)
       /\ runs' = [runs EXCEPT ![r] =
             [run EXCEPT !.k = @ + 1,
                         !.funds = res.funds,
                         !.bills = res.bills,
                         !.added = IF res = view THEN @
                                   ELSE Append(@, CHOOSE t \in res.transactions
                                                      \ view.transactions : TRUE),
                         !.paid = IF res = view THEN @ ELSE @ \cup {b}]]
       /\ SetStore(Store)
       /\ UNCHANGED <<today, upserts, last>>

\* db.commit() after the loop.
run_commit(r) ==
    /\ runs[r].pc = "loop"
    /\ runs[r].k = Len(runs[r].order)
    /\ SetStore(Commit(Store, Flushed(Store, runs[r])))
    /\ runs' = [runs EXCEPT ![r].pc = "done"]
    /\ Record("bills", "committed")
    /\ UNCHANGED <<today, upserts>>

\* An exception in a query, the flush or the commit: rollback, log, re-raise.
run_raise(r) ==
    /\ runs[r].pc \in {"idle", "select", "loop"}
    /\ SetStore(Rollback(Store, Flushed(Store, runs[r])))
    /\ runs' = [runs EXCEPT ![r].pc = "done"]
    /\ Record("bills", IF runs[r].paid = {} THEN "raised_clean" ELSE "raised")
    /\ UNCHANGED <<today, upserts>>

\* Two invocations on FirstDay over every fund table and bill table.
InitOverlap ==
    /\ today = FirstDay
    /\ funds \in FundTables
    /\ bills \in BillTables
    /\ transactions = {}
    /\ allocation = <<>>
    /\ categories = (1 :> Salary) @@ (2 :> BillsCat) @@ (3 :> Groceries)
    /\ budgets = {}
    /\ unallocated = {}
    /\ upserts = 0
    /\ runs = [r \in Runs |-> IdleRun]
    /\ last = [op |-> "none", outcome |-> "none", after |-> "none"]

NextOverlap ==
    \E r \in Runs :
        \/ run_begin_nofund(r)
        \/ run_begin(r)
        \/ run_select(r)
        \/ run_pay(r)
        \/ run_commit(r)
        \/ run_raise(r)

SpecOverlap == InitOverlap /\ [][NextOverlap]_vars

\* ------------------------------------------------ recommended allocation

\* The bill tables the recommended amount is computed from: two bills, each of
\* any frequency of the closed set, active or not; amounts of 1200.00 or
\* 100.00 for the first and of 15.01 or 20.00 for the second.
RecommendedBillTables ==
    {(1 :> [amount |-> a1, frequency |-> f1, category_id |-> 2, is_active |-> x1,
            next_due_date |-> 20280301, bill_type |-> "fixed"])
       @@ (2 :> [amount |-> a2, frequency |-> f2, category_id |-> 2, is_active |-> x2,
                 next_due_date |-> 20280301, bill_type |-> "fixed"])
     : a1 \in {120000, 10000}, a2 \in {1501, 2000},
       f1 \in {"monthly", "quarterly", "yearly", "28_days"},
       f2 \in {"monthly", "quarterly", "yearly", "28_days"},
       x1 \in BOOLEAN, x2 \in BOOLEAN}

\* No allocation is configured yet; the income form saves one, and the income
\* runs of FirstDay apply it.
InitRecommended ==
    /\ today = FirstDay
    /\ funds \in {f \in FundTables : ~f[1].is_deleted}
    /\ bills \in RecommendedBillTables
    /\ transactions = {}
    /\ allocation = <<>>
    /\ categories = (1 :> Salary) @@ (2 :> BillsCat) @@ (3 :> Groceries)
    /\ budgets = {}
    /\ unallocated = {}
    /\ upserts = 0
    /\ runs = [r \in Runs |-> IdleRun]
    /\ last = [op |-> "none", outcome |-> "none", after |-> "none"]

NextRecommended ==
    \/ process_income_allocation
    \/ income_save

SpecRecommended == InitRecommended /\ [][NextRecommended]_vars

\* ----------------------------------------------------------- budget seeding

\* Categories for the budget rows: Groceries and Dining are budget categories,
\* Holidays is a soft-deleted budget category.
Dining == [type |-> "expense", is_budget_category |-> TRUE, is_deleted |-> FALSE]
Holidays == [type |-> "expense", is_budget_category |-> TRUE, is_deleted |-> TRUE]

\* A Budget row of Groceries for January 2028 that the user has filled in.
GroceriesJanuary ==
    [category_id |-> 3, month |-> 1, year |-> 2028,
     allocated_amount |-> 30000, spent_amount |-> 1200, fund_balance |-> 500]

\* The budget table is empty or holds the Groceries row of January 2028; no
\* allocation is configured yet.
InitBudget ==
    /\ today = FirstDay
    /\ funds \in {f \in FundTables : ~f[1].is_deleted}
    /\ bills \in {b \in BillTables : ~b[2].is_active}
    /\ transactions = {}
    /\ allocation = <<>>
    /\ categories = (1 :> Salary) @@ (2 :> BillsCat) @@ (3 :> Groceries)
                       @@ (4 :> Holidays) @@ (5 :> Dining)
    /\ budgets \in {{}, {GroceriesJanuary}}
    /\ unallocated = {}
    /\ upserts = 0
    /\ runs = [r \in Runs |-> IdleRun]
    /\ last = [op |-> "none", outcome |-> "none", after |-> "none"]

NextBudget ==
    \/ process_income_allocation
    \/ income_save
    \/ api_post_income
    \/ Tick

SpecBudget == InitBudget /\ [][NextBudget]_vars

\* ------------------------------------------------------------- daily runs

\* The bill_processing job as the cron trigger fires it: one run of
\* process_due_bills on every day, then the date rolls over.
daily_run ==
    /\ last.op # "bills"
    /\ process_due_bills_commit

daily_tick ==
    /\ last.op = "bills"
    /\ Tick

\* Due dates up to three cycles before FirstDay.
OverdueDates == {20271130, 20271215, 20271231, 20280102, 20280130}

\* Bill 1 is fixed, of any frequency and overdue on FirstDay; bill 2 is any of
\* SecondBills; the Bills fund is present.
InitDaily ==
    /\ today = FirstDay
    /\ funds \in {f \in FundTables : ~f[1].is_deleted}
    /\ bills \in {(1 :> [amount |-> 10000, frequency |-> f, category_id |-> 2,
                         is_active |-> TRUE, next_due_date |-> d, bill_type |-> "fixed"])
                    @@ (2 :> second)
                  : f \in Frequencies \cup {UnknownFrequency}, d \in OverdueDates,
                    second \in SecondBills}
    /\ transactions = {}
    /\ allocation = <<>>
    /\ categories = (1 :> Salary) @@ (2 :> BillsCat) @@ (3 :> Groceries)
    /\ budgets = {}
    /\ unallocated = {}
    /\ upserts = 0
    /\ runs = [r \in Runs |-> IdleRun]
    /\ last = [op |-> "none", outcome |-> "none", after |-> "none"]

NextDaily ==
    \/ daily_run
    \/ daily_tick

\* The trigger fires every day and the days go by.
SpecDaily ==
    InitDaily /\ [][NextDaily]_vars /\ WF_vars(daily_run) /\ WF_vars(daily_tick)

\* ------------------------------------ manual payment, step by step

\* POST /bills/{bill_id}/pay as the sequence of its database accesses, in a
\* session of its own (get_db), next to a process_due_bills invocation that
\* runs in the thread of the scheduler.  The session r of the request keeps
\* the bill in order, the rows it loaded in bills and funds.

\* The bill query at the start of the handler loads the bill.
pay_load(r, bill_id) ==
    /\ runs[r].pc = "idle"
    /\ bill_id \in DOMAIN bills
    /\ runs' = [runs EXCEPT ![r].pc = "bill", ![r].bills = bills,
                             ![r].order = <<bill_id>>]
    /\ SetStore(Store)
    /\ UNCHANGED <<today, upserts, last>>

\* _record_bill_payment finds no Bills fund: ValueError, caught; nothing is
\* committed.
pay_nofund(r) ==
    /\ runs[r].pc = "bill"
    /\ BillsFund(Store) = None
    /\ runs' = [runs EXCEPT ![r].pc = "done"]
    /\ SetStore(Rollback(Store, Store))
    /\ Record("pay", "fund_not_found")
    /\ UNCHANGED <<today, upserts>>

\* _record_bill_payment: the Bills fund query loads the fund; the transaction,
\* the debit and the advance are made on the objects of the session.
pay_record(r, amount, payment_date) ==
    /\ runs[r].pc = "bill"
    /\ amount > 0
    /\ BillsFund(Store) # None
    /\ LET b == runs[r].order[1]
           view == [Store EXCEPT !.bills = runs[r].bills]
           res == record_bill_payment(view, b, amount, payment_date)
       IN runs' = [runs EXCEPT ![r] =
             [@ EXCEPT !.pc = "paid", !.funds = res.funds, !.bills = res.bills,
                       !.added = <<CHOOSE t \in res.transactions
                                       \ view.transactions : TRUE>>,
                       !.paid = {b}]]
    /\ SetStore(Store)
    /\ UNCHANGED <<today, upserts, last>>

\* db.commit() of the handler.
pay_commit(r) ==
    /\ runs[r].pc = "paid"
    /\ SetStore(Commit(Store, Flushed(Store, runs[r])))
    /\ runs' = [runs EXCEPT ![r].pc = "done"]
    /\ Record("pay", "committed")
    /\ UNCHANGED <<today, upserts>>

\* The commit raises: the request fails and get_db closes the session.
pay_raise(r) ==
    /\ runs[r].pc = "paid"
    /\ SetStore(Rollback(Store, Flushed(Store, runs[r])))
    /\ runs' = [runs EXCEPT ![r].pc = "done"]
    /\ Record("pay", "raised")
    /\ UNCHANGED <<today, upserts>>

\* Invocation 1 is a process_due_bills run, session 2 a manual payment of
\* 25.00 dated today or 2028-01-15, on any bill.
NextOverlapPay ==
    \/ run_begin_nofund(1)
    \/ run_begin(1)
    \/ run_select(1)
    \/ run_pay(1)
    \/ run_commit(1)
    \/ run_raise(1)
    \/ \E bill_id \in DOMAIN bills : pay_load(2, bill_id)
    \/ pay_nofund(2)
    \/ \E payment_date \in PayDates : pay_record(2, 2500, payment_date)
    \/ pay_commit(2)
    \/ pay_raise(2)

SpecOverlapPay == InitOverlap /\ [][NextOverlapPay]_vars

\* ---------------------------------------------------- transactions CRUD

\* The number of transaction rows up to which the model deletes one.
MaxRows == 4

\* The dates of the transactions a user creates: the first and the last day
\* of the month of FirstDay, and the last day of the month before.
CreateDates == {20280101, 20280131, 20271231}

\* POST /api/transactions (TransactionCreate: amount > 0): the row is added
\* and committed; no fund, bill or budget is touched.
api_create_transaction(date, transaction_type) ==
    /\ Cardinality(transactions) < MaxTxns
    /\ SetStore(Commit(Store, AddTransaction(Store, date, 2500, 1, "income",
                                             transaction_type, None, None)))
    /\ Record("create", "committed")
    /\ UNCHANGED <<today, upserts, runs>>

\* DELETE /api/transactions/{txn_id}: 404 when there is no such row.
api_delete_transaction_missing(txn_id) ==
    /\ ~\E t \in transactions : t.id = txn_id
    /\ SetStore(Store)
    /\ Record("delete", "not_found")
    /\ UNCHANGED <<today, upserts, runs>>

\* DELETE /api/transactions/{txn_id}: the row is deleted and the deletion
\* committed; no fund balance is restored.  The rows deleted here are income
\* and regular ones.
api_delete_transaction_commit(txn_id) ==
    /\ Cardinality(transactions) <= MaxRows
    /\ \E t \in transactions :
          t.id = txn_id /\ t.transaction_type # "income_allocation"
    /\ SetStore(Commit(Store, [Store EXCEPT !.transactions =
                                   {t \in @ : t.id # txn_id}]))
    /\ Record("delete", "committed")
    /\ UNCHANGED <<today, upserts, runs>>

api_delete_transaction ==
    \E txn_id \in 1..(MaxRows + 1) :
        \/ api_delete_transaction_missing(txn_id)
        \/ api_delete_transaction_commit(txn_id)

\* The seeded categories, the Bills fund present, nothing configured.
InitCrud ==
    /\ today = FirstDay
    /\ funds \in {f \in FundTables : ~f[1].is_deleted}
    /\ bills \in BillTables
    /\ transactions = {}
    /\ allocation = <<>>
    /\ categories = (1 :> Salary) @@ (2 :> BillsCat) @@ (3 :> Groceries)
    /\ budgets = {}
    /\ unallocated = {}
    /\ upserts = 0
    /\ runs = [r \in Runs |-> IdleRun]
    /\ last = [op |-> "none", outcome |-> "none", after |-> "none"]

NextCrud ==
    \/ process_income_allocation
    \/ income_save
    \/ \E date \in CreateDates, transaction_type \in {"income", "regular"} :
          api_create_transaction(date, transaction_type)
    \/ api_delete_transaction

SpecCrud == InitCrud /\ [][NextCrud]_vars

\* ------------------------------------------------ bills with an end_date

\* RecurringBill.end_date (nullable): none; before the first due date; after
\* it and before FirstDay.
EndDates == {<<>>, <<20271031>>, <<20271231>>}

\* Bill 1 costs 600.00, more than the 500.00 of the Bills fund, is due since
\* 2027-11-30 or from FirstDay, and has any end_date; bill 2 has none.
InitEnd ==
    /\ today = FirstDay
    /\ funds \in FundTables
    /\ bills \in {(1 :> [amount |-> 60000, frequency |-> "monthly", category_id |-> 2,
                         is_active |-> a, next_due_date |-> d, bill_type |-> "fixed",
                         end_date |-> e])
                    @@ (2 :> (second @@ [end_date |-> <<>>]))
                  : a \in BOOLEAN, d \in {20271130, 20280130}, e \in EndDates,
                    second \in SecondBills}
    /\ transactions = {}
    /\ allocation = <<>>
    /\ categories = (1 :> Salary) @@ (2 :> BillsCat) @@ (3 :> Groceries)
    /\ budgets = {}
    /\ unallocated = {}
    /\ upserts = 0
    /\ runs = [r \in Runs |-> IdleRun]
    /\ last = [op |-> "none", outcome |-> "none", after |-> "none"]

NextEnd ==
    \/ process_due_bills
    \/ Tick

SpecEnd == InitEnd /\ [][NextEnd]_vars

\* -------------------------------------------- due dates at a month's end

\* Due dates on the last day of a month that the next cycles must clamp.
MonthEndDates == {20270131, 20271130, 20280131, 20280229}

\* One fixed bill of any frequency due on one of MonthEndDates; the clock of
\* the payment runs.
InitClamp ==
    /\ today = PayDay
    /\ funds \in FundTables
    /\ bills \in {(1 :> [amount |-> 1501, frequency |-> f, category_id |-> 2,
                         is_active |-> TRUE, next_due_date |-> d, bill_type |-> "fixed"])
                  : f \in Frequencies, d \in MonthEndDates}
    /\ transactions = {}
    /\ allocation = <<>>
    /\ categories = (1 :> Salary) @@ (2 :> BillsCat) @@ (3 :> Groceries)
    /\ budgets = {}
    /\ unallocated = {}
    /\ upserts = 0
    /\ runs = [r \in Runs |-> IdleRun]
    /\ last = [op |-> "none", outcome |-> "none", after |-> "none"]

SpecClamp == InitClamp /\ [][NextPay]_vars

\* ------------------------------------------------------------------ claims

TodayStr == isoformat(today)

\* The transactions the step inserted.
NewTransactions == transactions' \ transactions

\* The step was a run that ended with an exception.
RunRaised == last'.outcome \in {"raised", "raised_clean"}

\* The income transactions dated in the month of d.
IncomeTxnsInMonth(txns, d) ==
    {t \in txns : t.transaction_type = "income"
                  /\ t.date \div 100 = d.year * 100 + d.month}

\* No non-deleted sinking fund is named Bills.
NoBillsFund ==
    \A f \in DOMAIN funds : funds[f].name = "Bills" => funds[f].is_deleted

\* The bill is active and its next_due_date is not after today.
IsDue(b) == bills[b].is_active /\ bills[b].next_due_date <= TodayStr

\* A transaction of the bill dated today exists before the step.
PaidToday(b) ==
    \E t \in transactions : t.recurring_bill_id = b /\ t.date = TodayStr

RECURSIVE SumAmounts(_)
SumAmounts(txns) ==
    IF txns = {} THEN 0
    ELSE LET t == CHOOSE x \in txns : TRUE
         IN t.amount + SumAmounts(txns \ {t})

RECURSIVE SumIncrease(_, _, _)
SumIncrease(before, after, S) ==
    IF S = {} THEN 0
    ELSE LET f == CHOOSE x \in S : TRUE
         IN (after[f].current_balance - before[f].current_balance)
            + SumIncrease(before, after, S \ {f})

\* C1: a run of process_due_bills right after a committed run on the same day
\* leaves the transactions, the fund balances and every next_due_date as they
\* were, also for a bill that is still overdue after the first run.
C1_DueBillsIdempotent ==
    [][(last.op = "bills" /\ last.outcome = "committed" /\ last'.op = "bills")
          => (transactions' = transactions /\ funds' = funds /\ bills' = bills)]_vars

\* C1 witness: a second committed run in a row, with a bill that was paid today
\* and is still overdue.
C1_Witness ==
    /\ last.op = "bills" /\ last.outcome = "committed" /\ last.after = "committed"
    /\ \E b \in DOMAIN bills : IsDue(b) /\ PaidToday(b)

\* C2: a month never holds more than one income transaction, a committed run
\* leaves exactly one, and a run in a month that already has one changes
\* nothing in the store (funds, transactions, budgets, unallocated income).
C2_IncomeOncePerMonth ==
    [][/\ Cardinality(IncomeTxnsInMonth(transactions', today')) <= 1
       /\ (last'.op = "income" /\ last'.outcome = "committed")
             => Cardinality(IncomeTxnsInMonth(transactions', today)) = 1
       /\ (last'.op = "income" /\ IncomeTxnsInMonth(transactions, today) # {})
             => Store' = Store]_vars

\* C2 witness: a run skipped on a later day of the month of the income
\* transaction.
C2_Witness ==
    /\ last.op = "income" /\ last.outcome = "skipped"
    /\ \E t \in IncomeTxnsInMonth(transactions, today) : t.date < TodayStr

\* C3 (as claimed): a run of process_due_bills creates no transaction for a
\* due active variable bill and leaves its next_due_date unchanged.
C3_VariableBillNeverAutoPaid ==
    [][last'.op = "bills"
          => \A b \in DOMAIN bills :
                (bills[b].bill_type = "variable" /\ IsDue(b) /\ ~NoBillsFund)
                   => /\ \A t \in NewTransactions : t.recurring_bill_id # b
                      /\ bills'[b].next_due_date = bills[b].next_due_date]_vars

\* The run paid bill b once, dated today, and advanced it by one cycle from its
\* previous due date.
PaidOneCycle(b) ==
    LET new == {t \in NewTransactions : t.recurring_bill_id = b}
    IN /\ Cardinality(new) = 1
       /\ \A t \in new : t.date = TodayStr
       /\ bills'[b].next_due_date =
             isoformat(advance_due_date(fromisoformat(bills[b].next_due_date),
                                        bills[b].frequency))

\* C4 (as claimed): every committed run pays every due auto-payable bill
\* exactly once, dated today, and advances it by one cycle.
C4_EveryRunPaysDueBill ==
    [][(last'.op = "bills" /\ last'.outcome = "committed")
          => \A b \in DOMAIN bills :
                (bills[b].bill_type = "fixed" /\ IsDue(b)) => PaidOneCycle(b)]_vars

\* C4 (amended): a committed run pays a due auto-payable bill that has no
\* transaction dated today exactly once, dated today, and advances it by one
\* cycle from its previous due date; a bill that already has a transaction
\* dated today gets none and keeps its due date; no bill gets more than one.
C4_OneCyclePerRun ==
    [][(last'.op = "bills" /\ last'.outcome = "committed")
          => \A b \in DOMAIN bills :
                /\ Cardinality({t \in NewTransactions : t.recurring_bill_id = b}) <= 1
                /\ (bills[b].bill_type = "fixed" /\ IsDue(b) /\ ~PaidToday(b))
                      => PaidOneCycle(b)
                /\ (IsDue(b) /\ PaidToday(b))
                      => /\ \A t \in NewTransactions : t.recurring_bill_id # b
                         /\ bills'[b].next_due_date = bills[b].next_due_date]_vars

\* C4 witness: a committed run paid a bill today that is still overdue after
\* the advance (it was more than one cycle behind).
C4_Witness ==
    /\ last.op = "bills" /\ last.outcome = "committed" /\ last.after = "none"
    /\ \E b \in DOMAIN bills :
          /\ bills[b].bill_type = "fixed" /\ IsDue(b)
          /\ Cardinality({t \in transactions : t.recurring_bill_id = b}) = 1
          /\ PaidToday(b)

\* C5: after a committed income run, the month's unallocated amount plus the
\* budget allocation plus the sum of all fund-balance increases (which is the
\* sum of the income_allocation transactions inserted) equals the income.
C5_IncomeConserved ==
    [][(last'.op = "income" /\ last'.outcome = "committed")
          => LET a == allocation[1]
                 rows == {r \in unallocated' :
                             r.month = today.month /\ r.year = today.year}
                 credited == SumIncrease(funds, funds', DOMAIN funds)
             IN /\ Cardinality(rows) = 1
                /\ credited = SumAmounts({t \in NewTransactions :
                                  t.transaction_type = "income_allocation"})
                /\ \A r \in rows :
                      r.unallocated_amount =
                         a.monthly_income_amount - credited
                            - a.monthly_budget_allocation]_vars

\* C5 witness: a committed income run that credited the Bills fund and another
\* fund.
C5_Witness ==
    /\ last.op = "income" /\ last.outcome = "committed"
    /\ \E t1, t2 \in transactions :
          /\ t1.transaction_type = "income_allocation"
          /\ t2.transaction_type = "income_allocation"
          /\ t1.date = TodayStr /\ t2.date = TodayStr
          /\ funds[t1.sinking_fund_id].name = "Bills"
          /\ funds[t2.sinking_fund_id].name # "Bills"
    /\ \E r \in unallocated : r.month = today.month /\ r.year = today.year

\* C6: a run of process_due_bills that ends with an exception leaves the store
\* exactly as it was before the run.
C6_DueBillsAllOrNothing ==
    [][(last'.op = "bills" /\ RunRaised) => Store' = Store]_vars

\* C6 witness: a run raised while its session held the payment of a bill.
C6_Witness ==
    /\ last.op = "bills" /\ last.outcome = "raised"
    /\ \E b \in DOMAIN bills : IsDue(b) /\ ~PaidToday(b)

\* C7: an income run that ends with an exception leaves the store exactly as it
\* was (no income transaction), and the next run that does not fail commits
\* the allocation: one income transaction and the month's unallocated row.
C7_IncomeAllOrNothing ==
    [][/\ (last'.op = "income" /\ RunRaised) => Store' = Store
       /\ (last.op = "income" /\ last.outcome = "raised"
           /\ last'.op = "income" /\ ~RunRaised)
             => /\ last'.outcome = "committed"
                /\ IncomeTxnsInMonth(transactions, today) = {}
                /\ Cardinality(IncomeTxnsInMonth(transactions', today)) = 1
                /\ \E r \in unallocated' :
                      r.month = today.month /\ r.year = today.year]_vars

\* C7 witness: an income run committed right after one that raised with
\* changes pending.
C7_Witness ==
    last.op = "income" /\ last.outcome = "committed" /\ last.after = "raised"

\* C8: without a non-deleted Bills fund a run of process_due_bills changes
\* nothing, and unless the store fails it returns.
C8_NoBillsFundNoOp ==
    [][(last'.op = "bills" /\ NoBillsFund)
          => /\ Store' = Store
             /\ ~RunRaised => last'.outcome = "returned"]_vars

\* C8 witness: a run returned for the missing Bills fund while a bill was due.
C8_Witness ==
    /\ last.op = "bills" /\ last.outcome = "returned" /\ NoBillsFund
    /\ \E b \in DOMAIN bills : IsDue(b)

\* The configuration is missing: no IncomeAllocation row, no non-deleted income
\* category or no non-deleted expense category.
ConfigAbsent ==
    \/ allocation = <<>>
    \/ ~\E c \in DOMAIN categories :
            categories[c].type = "income" /\ ~categories[c].is_deleted
    \/ ~\E c \in DOMAIN categories :
            categories[c].type = "expense" /\ ~categories[c].is_deleted

\* C9: with the configuration missing an income run changes nothing and,
\* unless the store fails, returns; and the run that follows a returned run
\* and a save that completed the configuration commits the allocation.
C9_MissingConfigNoOp ==
    [][/\ (last'.op = "income" /\ ConfigAbsent)
             => /\ Store' = Store
                /\ ~RunRaised => last'.outcome \in {"returned", "skipped"}
       /\ (last.op = "upsert" /\ last.after = "returned" /\ ~ConfigAbsent
           /\ last'.op = "income" /\ ~RunRaised)
             => /\ last'.outcome = "committed"
                /\ Cardinality(IncomeTxnsInMonth(transactions', today)) = 1]_vars

\* C9 witness: an income run committed after a run that returned for missing
\* configuration and the save that fixed it.
C9_Witness ==
    last.op = "income" /\ last.outcome = "committed"
       /\ last.after = "returned_saved"

\* The Bills income_allocation transactions of the step and the Bills credit.
NewBillsAllocations ==
    {t \in NewTransactions : t.transaction_type = "income_allocation"
                             /\ t.sinking_fund_id = BillsFund(Store)}

BillsCredit ==
    funds'[BillsFund(Store)].current_balance
       - funds[BillsFund(Store)].current_balance

\* C10 (as claimed): with type fixed the Bills credit and transaction amount
\* of a committed income run are exactly bills_fund_fixed_amount, otherwise
\* exactly the recommended amount.
C10_FixedAmountAlwaysCredited ==
    [][(last'.op = "income" /\ last'.outcome = "committed" /\ ~NoBillsFund)
          => LET a == allocation[1]
                 amount == IF a.bills_fund_allocation_type = "fixed"
                           THEN a.bills_fund_fixed_amount
                           ELSE <<compute_bills_recommended(Store)>>
             IN amount # <<>>
                   => /\ BillsCredit = amount[1]
                      /\ \A t \in NewBillsAllocations : t.amount = amount[1]]_vars

\* C10 (amended): the contribution is bills_fund_fixed_amount (0 when unset)
\* with type fixed and the recommended amount otherwise; when it is > 0 the
\* run inserts exactly one Bills income_allocation transaction of that amount
\* and credits the Bills fund by it; when it is <= 0 the run inserts none and
\* leaves the Bills balance unchanged.
C10_BillsContributionSelected ==
    [][(last'.op = "income" /\ last'.outcome = "committed" /\ ~NoBillsFund)
          => LET a == allocation[1]
                 contribution ==
                     IF a.bills_fund_allocation_type = "fixed"
                     THEN (IF a.bills_fund_fixed_amount = <<>> THEN 0
                           ELSE a.bills_fund_fixed_amount[1])
                     ELSE compute_bills_recommended(Store)
             IN IF contribution > 0
                THEN /\ Cardinality(NewBillsAllocations) = 1
                     /\ \A t \in NewBillsAllocations : t.amount = contribution
                     /\ BillsCredit = contribution
                ELSE NewBillsAllocations = {} /\ BillsCredit = 0]_vars

\* C10 witness: a committed run with type fixed credited the fixed amount,
\* which differs from the recommended amount; and the recommended amount is
\* what a run credits otherwise.
C10_Witness ==
    /\ last.op = "income" /\ last.outcome = "committed"
    /\ allocation # <<>>
    /\ allocation[1].bills_fund_allocation_type = "fixed"
    /\ allocation[1].bills_fund_fixed_amount # <<>>
    /\ compute_bills_recommended(Store) # allocation[1].bills_fund_fixed_amount[1]
    /\ \E t \in transactions :
          /\ t.transaction_type = "income_allocation" /\ t.date = TodayStr
          /\ funds[t.sinking_fund_id].name = "Bills"
          /\ t.amount = allocation[1].bills_fund_fixed_amount[1]

\* The bills whose next_due_date the step changed.
Advanced == {b \in DOMAIN bills : bills'[b].next_due_date # bills[b].next_due_date}

\* The number of days from 0001-01-01 to d, counted without stepping day by
\* day: whole years, then whole months, then days.
RECURSIVE DaysBeforeMonth(_, _)
DaysBeforeMonth(y, m) ==
    IF m = 1 THEN 0 ELSE DaysBeforeMonth(y, m - 1) + monthrange(y, m - 1)

toordinal(d) ==
    LET y == d.year - 1
    IN 365 * y + y \div 4 - y \div 100 + y \div 400
       + DaysBeforeMonth(d.year, d.month) + d.day

\* d is a date of the calendar.
ValidDate(d) ==
    /\ d.month \in 1..12
    /\ d.day \in 1..monthrange(d.year, d.month)

\* new lies k months after the month of old, on old's day of month or on the
\* last day of that month when the month is shorter.
MonthsLater(old, new, k) ==
    /\ new.month \in 1..12
    /\ new.year * 12 + (new.month - 1) = old.year * 12 + (old.month - 1) + k
    /\ new.day = Min({old.day, monthrange(new.year, new.month)})

\* C11: whenever a payment advances a monthly, quarterly or yearly bill, the
\* new due date lies in the month exactly 1, 3 or 12 months after the old one
\* (rolling the year), on the same day of month clamped to the length of that
\* month; a 28_days bill moves by exactly 28 days.
C11_AdvanceLandsClamped ==
    [][\A b \in Advanced :
          LET old == fromisoformat(bills[b].next_due_date)
              new == fromisoformat(bills'[b].next_due_date)
              f == bills[b].frequency
          IN /\ f = "monthly" => MonthsLater(old, new, 1)
             /\ f = "quarterly" => MonthsLater(old, new, 3)
             /\ f = "yearly" => MonthsLater(old, new, 12)
             /\ f = "28_days" => toordinal(new) = toordinal(old) + 28]_vars

\* C11 witness: a monthly bill that one committed manual payment moved to
\* 2027-02-28, the clamped day of the non-leap February after January 2027.
C11_Witness ==
    /\ last.op = "pay" /\ last.outcome = "committed"
    /\ Cardinality(transactions) = 1
    /\ bills[1].frequency = "monthly"
    /\ bills[1].next_due_date = 20270228

\* C12: every change of a next_due_date by process_due_bills or by a manual
\* payment, whatever the frequency (unknown ones included), gives a date of the
\* calendar that is strictly later than the date it replaced.
C12_DueDateMovesForward ==
    [][(last'.op \in {"bills", "pay"})
          => \A b \in Advanced :
                /\ ValidDate(fromisoformat(bills'[b].next_due_date))
                /\ bills'[b].next_due_date > bills[b].next_due_date
                /\ toordinal(fromisoformat(bills'[b].next_due_date))
                     > toordinal(fromisoformat(bills[b].next_due_date))]_vars

\* C12 witness: a bill of unknown frequency that a committed process_due_bills
\* run moved by the 30-day fallback, from 2027-12-31 to 2028-01-30.
C12_Witness ==
    /\ last.op = "bills" /\ last.outcome = "committed"
    /\ bills[1].frequency = UnknownFrequency
    /\ bills[1].next_due_date = 20280130
    /\ \E t \in transactions : t.recurring_bill_id = 1 /\ t.date = TodayStr

\* The ids of the non-deleted funds named Bills.
LiveBillsFunds == {f \in DOMAIN funds : funds[f].name = "Bills" /\ ~funds[f].is_deleted}

\* new is one cycle of frequency f after old (both as stored).
OneCycleLater(old, new, f) ==
    LET o == fromisoformat(old)
        n == fromisoformat(new)
    IN /\ ValidDate(n)
       /\ IF f = "monthly" THEN MonthsLater(o, n, 1)
          ELSE IF f = "quarterly" THEN MonthsLater(o, n, 3)
          ELSE IF f = "yearly" THEN MonthsLater(o, n, 12)
          ELSE IF f = "28_days" THEN toordinal(n) = toordinal(o) + 28
          ELSE toordinal(n) = toordinal(o) + 30

\* C13: a committed manual payment of amount a, dated d, on bill b (fixed or
\* variable) inserts exactly one transaction: expense/regular, amount a, date d,
\* the bill's category, the Bills fund, recurring_bill_id b; it lowers the
\* Bills fund balance by exactly a and no other balance; it moves b's
\* next_due_date one cycle on from its previous value and changes nothing else
\* of any bill.
C13_ManualPaymentEffects ==
    [][\A b \in DOMAIN bills : \A a \in PayAmounts : \A d \in PayDates :
          bills_pay_commit(b, a, d) =>
            \E f \in LiveBillsFunds :
              /\ transactions \subseteq transactions'
              /\ \E t \in transactions' :
                    /\ NewTransactions = {t}
                    /\ t.amount = a /\ t.date = d
                    /\ t.type = "expense" /\ t.transaction_type = "regular"
                    /\ t.category_id = bills[b].category_id
                    /\ t.sinking_fund_id = f /\ t.recurring_bill_id = b
              /\ funds' = [funds EXCEPT ![f].current_balance = @ - a]
              /\ OneCycleLater(bills[b].next_due_date, bills'[b].next_due_date,
                               bills[b].frequency)
              /\ bills' = [bills EXCEPT ![b].next_due_date = bills'[b].next_due_date]]_vars

\* C13 witness: a variable quarterly bill after one committed manual payment of
\* 25.00 dated 2028-01-15: the Bills fund went from 500.00 to 475.00 and the
\* due date went to 2028-02-29, a quarter after November 2027 and not a quarter
\* after the payment date.
C13_Witness ==
    /\ last.op = "pay" /\ last.outcome = "committed"
    /\ bills[1].bill_type = "variable" /\ bills[1].frequency = "quarterly"
    /\ bills[1].next_due_date = 20280229
    /\ funds[1].current_balance = 47500
    /\ \E t \in transactions :
          /\ transactions = {t}
          /\ t.amount = 2500 /\ t.date = 20280115 /\ t.recurring_bill_id = 1

\* The step was a manual payment request for an existing bill with an amount
\* above zero.
ValidPayRequest == last'.op = "pay" /\ last'.outcome # "rejected"

\* C14: a manual payment requested while no non-deleted fund is named Bills is
\* answered with the fund-not-found error and leaves the transactions, every
\* fund and every bill as they were.
C14_NoFundPaymentFails ==
    [][(NoBillsFund /\ ValidPayRequest)
          => /\ last'.outcome = "fund_not_found"
             /\ transactions' = transactions
             /\ funds' = funds
             /\ bills' = bills]_vars

\* C14 witness: the fund-not-found answer, given while the only fund named
\* Bills is soft-deleted.
C14_Witness ==
    /\ last.op = "pay" /\ last.outcome = "fund_not_found"
    /\ funds[1].name = "Bills" /\ funds[1].is_deleted
    /\ transactions = {}

\* The transactions of bill b dated today.
PaymentsToday(b) ==
    {t \in transactions : t.recurring_bill_id = b /\ t.date = TodayStr}

\* C15: whatever way two invocations of process_due_bills on the same day
\* interleave, the committed state is that of one invocation: no bill has
\* more than one payment transaction dated today, and the Bills fund has been
\* debited by exactly the amounts of the payment transactions.
C15_OverlappingRunsAreOneRun ==
    /\ \A b \in DOMAIN bills : Cardinality(PaymentsToday(b)) <= 1
    /\ funds[1].current_balance = 50000 - SumAmounts(transactions)

\* The yearly cost of the active bills in thousandths of a cent, with the
\* multipliers 12, 4, 1 and 13.036.
RECURSIVE AnnualOfActive(_)
AnnualOfActive(S) ==
    IF S = {} THEN 0
    ELSE LET b == CHOOSE x \in S : TRUE
             m == CASE bills[b].frequency = "monthly" -> 12000
                    [] bills[b].frequency = "quarterly" -> 4000
                    [] bills[b].frequency = "yearly" -> 1000
                    [] bills[b].frequency = "28_days" -> 13036
         IN (IF bills[b].is_active THEN bills[b].amount * m ELSE 0)
            + AnnualOfActive(S \ {b})

\* r cents is total thousandths of a cent per year, divided by 12 and rounded
\* to the cent.
IsMonthlyShare(r, total) ==
    /\ 2 * (12000 * r - total) <= 12000
    /\ 2 * (total - 12000 * r) <= 12000

\* C16: the amount a committed income run with type recommended credits to the
\* Bills fund is the yearly cost of the active bills (amount times 12, 4, 1 or
\* 13.036 by frequency) divided by 12 and rounded to the cent; inactive bills
\* count for nothing, and with no active bill the amount is 0.
C16_RecommendedIsMonthlyShare ==
    [][(/\ last'.op = "income" /\ last'.outcome = "committed" /\ ~NoBillsFund
        /\ allocation[1].bills_fund_allocation_type = "recommended")
          => /\ IsMonthlyShare(BillsCredit, AnnualOfActive(DOMAIN bills))
             /\ IsMonthlyShare(compute_bills_recommended(Store),
                               AnnualOfActive(DOMAIN bills))
             /\ (\A b \in DOMAIN bills : ~bills[b].is_active)
                   => BillsCredit = 0 /\ compute_bills_recommended(Store) = 0]_vars

\* C16 witness: one active monthly bill of 1200.00 next to an inactive bill;
\* the committed run with type recommended credited the Bills fund with
\* exactly 1200.00.
C16_Witness ==
    /\ last.op = "income" /\ last.outcome = "committed"
    /\ allocation[1].bills_fund_allocation_type = "recommended"
    /\ bills[1].is_active /\ bills[1].frequency = "monthly" /\ bills[1].amount = 120000
    /\ ~bills[2].is_active
    /\ funds[1].current_balance = 50000 + 120000
    /\ \E t \in transactions :
          /\ t.transaction_type = "income_allocation" /\ t.sinking_fund_id = 1
          /\ t.amount = 120000

\* The balance fund f had at the start (FundTables).
InitialBalance(f) == IF f = 1 THEN 50000 ELSE 100000

\* C17: in every state the processors reach, the balance of each sinking fund
\* is its initial balance plus the income_allocation transactions that carry
\* its id minus the bill-payment transactions (recurring_bill_id set) that
\* carry its id.
C17_LedgerConsistent ==
    \A f \in DOMAIN funds :
        funds[f].current_balance =
            InitialBalance(f)
            + SumAmounts({t \in transactions :
                             t.sinking_fund_id = f
                             /\ t.transaction_type = "income_allocation"})
            - SumAmounts({t \in transactions :
                             t.sinking_fund_id = f /\ t.recurring_bill_id # None})

\* C17 witness: both processors have committed: the Bills fund carries a bill
\* payment and an income allocation, Savings an income allocation, and both
\* balances have moved.
C17_Witness ==
    /\ \E t \in transactions : t.sinking_fund_id = 1 /\ t.recurring_bill_id # None
    /\ \E t \in transactions :
          t.sinking_fund_id = 1 /\ t.transaction_type = "income_allocation"
    /\ \E t \in transactions :
          t.sinking_fund_id = 2 /\ t.transaction_type = "income_allocation"
    /\ funds[1].current_balance # 50000
    /\ funds[2].current_balance = 150000

\* C18: a run of process_due_bills gives no transaction to a bill that is
\* inactive or due after today and leaves that bill as it is, and it leaves
\* every fund other than the non-deleted Bills fund as it is.
C18_OnlyDueBillsAndBillsFund ==
    [][(last'.op = "bills")
          => /\ \A b \in DOMAIN bills :
                   (~bills[b].is_active \/ bills[b].next_due_date > TodayStr)
                      => /\ ~\E t \in NewTransactions : t.recurring_bill_id = b
                         /\ bills'[b] = bills[b]
             /\ \A f \in DOMAIN funds :
                   (funds[f].name # "Bills" \/ funds[f].is_deleted)
                      => funds'[f] = funds[f]
             /\ \A t \in NewTransactions : t.sinking_fund_id \in LiveBillsFunds]_vars

\* C18 witness: a committed run paid bill 1 today while bill 2, inactive and
\* overdue, has no transaction and its due date of 2028-01-30, and Savings
\* still holds 1000.00.
C18_Witness ==
    /\ last.op = "bills" /\ last.outcome = "committed"
    /\ PaymentsToday(1) # {}
    /\ ~bills[2].is_active /\ bills[2].next_due_date = 20280130
    /\ bills[2].next_due_date <= TodayStr
    /\ ~\E t \in transactions : t.recurring_bill_id = 2
    /\ funds[2].current_balance = 100000

\* A store without the primary keys of its transactions.
WithoutIds(s) ==
    [s EXCEPT !.transactions = {[x \in DOMAIN t \ {"id"} |-> t[x]] : t \in @}]

\* C19: the state a committed run of process_due_bills leaves is, up to the
\* primary keys given to the new transactions, the state that handling the
\* due bills in any other order gives: the same transactions, the same Bills
\* balance, the same next_due_dates.
C19_OrderIndependent ==
    [][(last'.op = "bills" /\ last'.outcome = "committed")
          => \A order \in Orders({b \in DOMAIN bills : IsDue(b)}) :
                LET s == PayDueBills(Store, order, Len(order), TodayStr,
                                     CHOOSE f \in LiveBillsFunds : TRUE)
                IN /\ WithoutIds(s) = WithoutIds(Store')
                   /\ Cardinality(s.transactions) = Cardinality(transactions')]_vars

\* C19 witness: a committed run that paid two due bills today, which it could
\* have handled in either order.
C19_Witness ==
    /\ last.op = "bills" /\ last.outcome = "committed"
    /\ PaymentsToday(1) # {} /\ PaymentsToday(2) # {}
    /\ bills[1].next_due_date = 20271230 /\ bills[2].next_due_date = 20280227

\* The Budget rows of category c for the month of today in the table rows.
BudgetRows(rows, c) ==
    {b \in rows : b.category_id = c /\ b.month = today.month /\ b.year = today.year}

\* C20: after a committed income run every non-deleted budget category has
\* exactly one Budget row for the current month and year; the rows the run
\* created are all zero and belong to such categories and to the current
\* month; every row that existed before is still there as it was.
C20_BudgetSeeding ==
    [][(last'.op = "income" /\ last'.outcome = "committed")
          => /\ \A c \in DOMAIN categories :
                   (categories[c].is_budget_category /\ ~categories[c].is_deleted)
                      => Cardinality(BudgetRows(budgets', c)) = 1
             /\ \A b \in budgets' \ budgets :
                   /\ b.allocated_amount = 0 /\ b.spent_amount = 0
                   /\ b.fund_balance = 0
                   /\ b.month = today.month /\ b.year = today.year
                   /\ b.category_id \in DOMAIN categories
                   /\ categories[b.category_id].is_budget_category
                   /\ ~categories[b.category_id].is_deleted
                   /\ BudgetRows(budgets, b.category_id) = {}
             /\ budgets \subseteq budgets']_vars

\* C20 witness: a committed run of January 2028 kept the Groceries row with its
\* 300.00 allocated, created the zero row of Dining, and created no row for
\* the soft-deleted Holidays or the non-budget categories.
C20_Witness ==
    /\ last.op = "income" /\ last.outcome = "committed"
    /\ today.month = 1
    /\ BudgetRows(budgets, 3) = {GroceriesJanuary}
    /\ BudgetRows(budgets, 5) =
          {[category_id |-> 5, month |-> 1, year |-> 2028,
            allocated_amount |-> 0, spent_amount |-> 0, fund_balance |-> 0]}
    /\ \A c \in {1, 2, 4} : BudgetRows(budgets, c) = {}

\* The junction rows of the saved allocation, by position.
Junctions == allocation[1].sinking_fund_allocations

\* Row i targets a fund that exists and is not soft-deleted.
TargetsLiveFund(i) ==
    /\ Junctions[i].sinking_fund_id \in DOMAIN funds
    /\ ~funds[Junctions[i].sinking_fund_id].is_deleted

\* Row i is malformed: its fund is missing or soft-deleted, or its amount is
\* not above zero.
Malformed(i) == ~TargetsLiveFund(i) \/ Junctions[i].allocation_amount <= 0

\* The well-formed rows that target fund f.
ValidRowsFor(f) ==
    {i \in 1..Len(Junctions) : ~Malformed(i) /\ Junctions[i].sinking_fund_id = f}

RECURSIVE SumRows(_)
SumRows(I) ==
    IF I = {} THEN 0
    ELSE LET i == CHOOSE x \in I : TRUE
         IN Junctions[i].allocation_amount + SumRows(I \ {i})

\* The income_allocation transactions the step inserted for fund f.
NewAllocationsTo(f) ==
    {t \in NewTransactions : t.transaction_type = "income_allocation"
                             /\ t.sinking_fund_id = f}

\* The step was an income run that passed the month guard and the
\* configuration checks and met no storage failure.
IncomeRunProceeds ==
    /\ last'.op = "income" /\ ~RunRaised
    /\ ~ConfigAbsent
    /\ IncomeTxnsInMonth(transactions, today) = {}

\* C21: an income run whose allocation holds malformed junction rows still
\* commits; every fund other than Bills gets one transaction and one credit
\* per well-formed row that targets it and nothing for a malformed row; no
\* transaction names a missing fund; and the unallocated amount is the income
\* minus the credits actually made minus the budget allocation.
C21_MalformedRowsSkipped ==
    [][IncomeRunProceeds
          => /\ last'.outcome = "committed"
             /\ \A f \in DOMAIN funds \ LiveBillsFunds :
                   /\ Cardinality(NewAllocationsTo(f)) = Cardinality(ValidRowsFor(f))
                   /\ SumAmounts(NewAllocationsTo(f)) = SumRows(ValidRowsFor(f))
                   /\ funds'[f].current_balance
                        = funds[f].current_balance + SumRows(ValidRowsFor(f))
             /\ \A t \in NewTransactions :
                   t.sinking_fund_id = None \/ t.sinking_fund_id \in DOMAIN funds
             /\ \A t \in NewTransactions : t.amount > 0
             /\ \A r \in unallocated' :
                   (r.month = today.month /\ r.year = today.year)
                      => r.unallocated_amount
                           = allocation[1].monthly_income_amount
                             - SumIncrease(funds, funds', DOMAIN funds)
                             - allocation[1].monthly_budget_allocation]_vars

\* C21 witness: a committed run whose allocation holds a row for a missing fund
\* (fund 3) and a row for the soft-deleted fund 1 next to a well-formed row for
\* Savings: Savings was credited with 500.00 and nothing else was.
C21_Witness ==
    /\ last.op = "income" /\ last.outcome = "committed"
    /\ \E i \in 1..Len(Junctions) : Junctions[i].sinking_fund_id \notin DOMAIN funds
    /\ \E i \in 1..Len(Junctions) :
          Junctions[i].sinking_fund_id = 1 /\ Junctions[i].allocation_amount > 0
    /\ funds[1].is_deleted /\ funds[1].current_balance = 50000
    /\ funds[2].current_balance = 150000
    /\ \E t \in transactions :
          /\ t.transaction_type = "income_allocation"
          /\ t.sinking_fund_id = 2 /\ t.amount = 50000
    /\ ~\E t \in transactions : t.sinking_fund_id \in {1, 3}

\* C22: in a committed income run the Bills fund gets at most one
\* income_allocation transaction; its amount, and the credit, is the fixed or
\* recommended contribution and never the amount of a junction row that
\* targets the Bills fund; with a contribution <= 0, or no Bills fund, no fund
\* named Bills gets a transaction or a credit.
C22_BillsJunctionIgnored ==
    [][(last'.op = "income" /\ last'.outcome = "committed")
          => LET a == allocation[1]
                 contribution ==
                     IF a.bills_fund_allocation_type = "fixed"
                     THEN (IF a.bills_fund_fixed_amount = <<>> THEN 0
                           ELSE a.bills_fund_fixed_amount[1])
                     ELSE compute_bills_recommended(Store)
             IN \A f \in DOMAIN funds :
                   funds[f].name = "Bills"
                     => IF ~funds[f].is_deleted /\ contribution > 0
                        THEN /\ Cardinality(NewAllocationsTo(f)) = 1
                             /\ \A t \in NewAllocationsTo(f) : t.amount = contribution
                             /\ funds'[f].current_balance
                                  = funds[f].current_balance + contribution
                        ELSE /\ NewAllocationsTo(f) = {}
                             /\ funds'[f] = funds[f]]_vars

\* C22 witness: a committed run with a junction row of 300.00 for the Bills
\* fund and a fixed contribution of 900.00: the Bills fund got the single
\* transaction of 900.00.
C22_Witness ==
    /\ last.op = "income" /\ last.outcome = "committed"
    /\ \E i \in 1..Len(Junctions) :
          Junctions[i].sinking_fund_id = 1 /\ Junctions[i].allocation_amount = 30000
    /\ ~funds[1].is_deleted /\ funds[1].name = "Bills"
    /\ allocation[1].bills_fund_fixed_amount = <<90000>>
    /\ \E t \in transactions :
          /\ {x \in transactions : x.sinking_fund_id = 1
                                      /\ x.transaction_type = "income_allocation"} = {t}
          /\ t.amount = 90000

\* The ids of the bill tables.
BillIds == {1, 2}

\* Bill b is active, auto-payable and not due after today.
AutoPayableDue(b) == bills[b].bill_type = "fixed" /\ IsDue(b)

\* C23: with one run of process_due_bills on every day and the Bills fund
\* present, every active fixed bill that is overdue is eventually due after
\* today; each daily run inserts exactly one transaction, dated today, for the
\* bill while it is due, and none once its due date lies after today.
C23_DailyRunsCatchUp ==
    /\ \A b \in BillIds :
          AutoPayableDue(b) ~> (bills[b].next_due_date > TodayStr)
    /\ [][(last'.op = "bills" /\ last'.outcome = "committed")
            => \A b \in BillIds :
                  bills[b].bill_type = "fixed"
                    => LET new == {t \in NewTransactions : t.recurring_bill_id = b}
                       IN IF IsDue(b)
                          THEN /\ Cardinality(new) = 1
                               /\ \A t \in new : t.date = TodayStr
                               /\ bills'[b].next_due_date > bills[b].next_due_date
                          ELSE new = {} /\ bills'[b] = bills[b]]_vars

\* C23 witness: a monthly bill that was three cycles behind on 2028-01-30 was
\* paid on 2028-01-30, 2028-01-31 and 2028-02-01 and is now due on 2028-02-29.
C23_Witness ==
    /\ isoformat(today) = 20280201
    /\ bills[1].frequency = "monthly" /\ bills[1].next_due_date = 20280229
    /\ {t.date : t \in {x \in transactions : x.recurring_bill_id = 1}}
          = {20280130, 20280131, 20280201}
    /\ Cardinality({x \in transactions : x.recurring_bill_id = 1}) = 3

\* C24: however a process_due_bills run and a manual payment in another unit
\* of work interleave, the committed Bills balance is the initial balance
\* minus the amounts of all committed payment transactions.
C24_NoLostBalanceUpdate ==
    funds[1].current_balance
        = 50000 - SumAmounts({t \in transactions : t.recurring_bill_id # None})

\* C25: the month guard looks only for a transaction of transaction_type
\* income dated in today's month, whoever created it: with one the run changes
\* nothing; with none (also after the income transaction of an earlier run of
\* the month was deleted, its allocation transactions still there) the run
\* allocates in full: one income transaction, every fund credited by its
\* allocation transactions, and the month's single unallocated row set to the
\* income minus the credits of this run minus the budget allocation.
C25_MonthGuardIsExistenceOnly ==
    [][(last'.op = "income" /\ ~RunRaised /\ ~ConfigAbsent)
          => IF IncomeTxnsInMonth(transactions, today) # {}
             THEN Store' = Store /\ last'.outcome = "skipped"
             ELSE LET a == allocation[1]
                      rows == {r \in unallocated' :
                                  r.month = today.month /\ r.year = today.year}
                      credited == SumIncrease(funds, funds', DOMAIN funds)
                  IN /\ last'.outcome = "committed"
                     /\ Cardinality({t \in NewTransactions :
                                        t.transaction_type = "income"}) = 1
                     /\ Cardinality(NewAllocationsTo(2)) = 1
                     /\ funds'[2].current_balance
                            = funds[2].current_balance + 50000
                     /\ credited = SumAmounts({t \in NewTransactions :
                                        t.transaction_type = "income_allocation"})
                     /\ Cardinality(rows) = 1
                     /\ \A r \in rows :
                           r.unallocated_amount =
                              a.monthly_income_amount - credited
                                 - a.monthly_budget_allocation]_vars

\* C25 witness: a second committed allocation in the month, after the income
\* transaction of the first was deleted: Savings credited twice, one income
\* transaction in the month, one unallocated row; a user's income transaction
\* dated in the month before is there and suppressed nothing.
C25_Witness ==
    /\ last.op = "income" /\ last.outcome = "committed"
    /\ Cardinality({t \in transactions :
                       /\ t.transaction_type = "income_allocation"
                       /\ t.sinking_fund_id = 2
                       /\ t.date = TodayStr}) = 2
    /\ Cardinality(IncomeTxnsInMonth(transactions, today)) = 1
    /\ funds[2].current_balance = 200000
    /\ Cardinality(unallocated) = 1
    /\ \E t \in transactions :
          t.transaction_type = "income" /\ t.amount = 2500 /\ t.date = 20271231

\* The store a sequential, undisturbed run of process_due_bills leaves of s.
BillsRunOn(s) ==
    IF BillsFund(s) = None THEN s
    ELSE LET order == CHOOSE o \in Orders(due_bills(s, TodayStr)) : TRUE
         IN PayDueBills(s, order, Len(order), TodayStr, BillsFund(s))

\* The store a sequential, undisturbed run of process_income_allocation
\* leaves of s.
IncomeRunOn(s) ==
    IF IncomeAlreadyProcessed(s, today) \/ ConfigMissing(s) THEN s
    ELSE IncomeStage(s, today, 5)

\* C26: the two processors commute on one day: the income run after a
\* completed bills run leaves what the bills run after the income run leaves,
\* and the other way round, up to the primary keys of the transactions: the
\* same transactions, fund balances, bills, Budget rows and unallocated rows.
C26_ProcessorsCommute ==
    [][/\ (last'.op = "bills" /\ ~RunRaised)
            => LET billsFirst == IncomeRunOn(Store')
                   incomeFirst == BillsRunOn(IncomeRunOn(Store))
               IN /\ WithoutIds(billsFirst) = WithoutIds(incomeFirst)
                  /\ Cardinality(billsFirst.transactions)
                        = Cardinality(incomeFirst.transactions)
       /\ (last'.op = "income" /\ ~RunRaised)
            => LET incomeFirst == BillsRunOn(Store')
                   billsFirst == IncomeRunOn(BillsRunOn(Store))
               IN /\ WithoutIds(billsFirst) = WithoutIds(incomeFirst)
                  /\ Cardinality(billsFirst.transactions)
                        = Cardinality(incomeFirst.transactions)]_vars

\* C26 witness: on one day the income run committed and then the bills run
\* committed; the income transaction, an allocation to the Bills fund and the
\* payment of bill 1 are all dated today.
C26_Witness ==
    /\ last.op = "bills" /\ last.outcome = "committed"
    /\ \E i, a, p \in transactions :
          /\ i.transaction_type = "income" /\ i.date = TodayStr
          /\ a.transaction_type = "income_allocation" /\ a.date = TodayStr
          /\ a.sinking_fund_id = 1
          /\ p.recurring_bill_id = 1 /\ p.date = TodayStr
          /\ i.id < p.id

C28_ManualPaymentNotIdempotent ==
    [][(last'.op = "pay" /\ last'.outcome = "committed")
          => /\ Cardinality(NewTransactions) = 1
             /\ transactions \subseteq transactions'
             /\ \A n \in NewTransactions :
                   LET b == n.recurring_bill_id
                   IN (\E t \in transactions :
                          t.recurring_bill_id = b /\ t.date = n.date)
                       => /\ Cardinality({t \in transactions' :
                                   t.recurring_bill_id = b /\ t.date = n.date}) >= 2
                          /\ \E f \in LiveBillsFunds :
                                funds'[f].current_balance
                                   = funds[f].current_balance - n.amount
                          /\ bills'[b].next_due_date > bills[b].next_due_date]_vars

\* C28 witness: process_due_bills paid bill 1 today (15.01) and a manual
\* payment of 25.00 dated today was committed after it: two payment
\* transactions of the bill on one day, the Bills fund at 500.00 - 40.01.
C28_Witness ==
    /\ last.op = "pay" /\ last.outcome = "committed"
    /\ funds[1].current_balance = 45999
    /\ \E t1, t2 \in transactions :
          /\ transactions = {t1, t2}
          /\ t1.id = 1 /\ t1.amount = 1501 /\ t1.date = TodayStr
          /\ t2.id = 2 /\ t2.amount = 2500 /\ t2.date = TodayStr
          /\ t1.recurring_bill_id = 1 /\ t2.recurring_bill_id = 1

C30_DayOfMonthNeverIncreases ==
    [][\A b \in DOMAIN bills :
          bills[b].frequency \in {"monthly", "quarterly", "yearly"}
            => /\ bills'[b].next_due_date % 100 <= bills[b].next_due_date % 100
               /\ (bills'[b].next_due_date # bills[b].next_due_date
                     => bills'[b].next_due_date
                          = isoformat(advance_due_date(
                                fromisoformat(bills[b].next_due_date),
                                bills[b].frequency)))]_vars

\* C30 witness: a monthly bill after two payments is due on 2028-03-29: it
\* started on 2028-01-31, was clamped to 2028-02-29 and stayed on the 29th
\* although March has 31 days.
C30_Witness ==
    /\ bills[1].frequency = "monthly"
    /\ bills[1].next_due_date = 20280329
    /\ Cardinality(transactions) = 2
    /\ \A t \in transactions : t.recurring_bill_id = 1

====
